---- MODULE Spec2Model ----
(***************************************************************************)
(* Emotion inference pipeline of emo_HuTwin (src/app/processing.py):       *)
(*   split_tasks_data -> per task { aggregate_by_second -> detect_emotions *)
(*   -> create_final_dataset } -> process_file's final write.              *)
(*                                                                         *)
(* Numbers (Weight, Intensity, threshold) are exact rationals <<n, d>>     *)
(* with d > 0 in lowest terms; float64 rounding is not modelled.           *)
(* Strings that the code takes apart or orders (Time) are sequences of     *)
(* one-character strings.                                                  *)
(***************************************************************************)
EXTENDS Integers, Sequences, FiniteSets, TLC

(***************************************************************************)
(* Bounds of the model.                                                    *)
(***************************************************************************)
\* Aggregated weights of the emotion specification range over -1..MaxWeight.
MaxWeight == 2

\* A sanitized file of the pipeline specification has at most MaxLines lines
\* after its header.
MaxLines == 3

(***************************************************************************)
(* Rational arithmetic.                                                    *)
(***************************************************************************)
Abs(n) == IF n < 0 THEN -n ELSE n

RECURSIVE GCD(_, _)
GCD(a, b) == IF b = 0 THEN a ELSE GCD(b, a % b)

\* <<n, d>> with d > 0, in lowest terms
Rat(n, d) ==
    LET g == GCD(Abs(n), d)
    IN  <<IF n < 0 THEN -(Abs(n) \div g) ELSE n \div g, d \div g>>

RInt(n) == <<n, 1>>

RAdd(a, b) == Rat(a[1] * b[2] + b[1] * a[2], a[2] * b[2])

\* a / b for b > 0
RDiv(a, b) == Rat(a[1] * b[2], a[2] * b[1])

RLess(a, b) == a[1] * b[2] < b[1] * a[2]

RLeq(a, b) == a[1] * b[2] <= b[1] * a[2]

RECURSIVE RSum(_)
RSum(s) == IF s = <<>> THEN RInt(0) ELSE RAdd(s[1], RSum(Tail(s)))

(***************************************************************************)
(* Strings as character sequences, ordered as Python orders str.           *)
(***************************************************************************)
CharCode(c) ==
    CASE c = " " -> 32
      [] c = "." -> 46
      [] c = "/" -> 47
      [] c = "0" -> 48
      [] c = "1" -> 49
      [] c = "2" -> 50
      [] c = "3" -> 51
      [] c = "5" -> 53
      [] c = "9" -> 57
      [] c = ":" -> 58
      [] c = "A" -> 65
      [] c = "M" -> 77
      [] c = "P" -> 80

RECURSIVE StrLess(_, _)
StrLess(s, t) ==
    IF t = <<>> THEN FALSE
    ELSE IF s = <<>> THEN TRUE
    ELSE IF CharCode(s[1]) # CharCode(t[1]) THEN CharCode(s[1]) < CharCode(t[1])
    ELSE StrLess(Tail(s), Tail(t))

(***************************************************************************)
(* utils.py: the static pattern table.                                     *)
(***************************************************************************)
emotion_primary_patterns ==
    [ happiness |-> << <<"CheekRaiserL", "CheekRaiserR">>,
                       <<"LipCornerPullerL", "LipCornerPullerR">> >>,
      sadness   |-> << <<"InnerBrowRaiserL", "InnerBrowRaiserR">>,
                       <<"BrowLowererL", "BrowLowererR">>,
                       <<"LipCornerDepressorL", "LipCornerDepressorR">> >>,
      surprise  |-> << <<"InnerBrowRaiserL", "InnerBrowRaiserR">>,
                       <<"OuterBrowRaiserL", "OuterBrowRaiserR">>,
                       <<"UpperLidRaiserL", "UpperLidRaiserR">>,
                       <<"JawDrop">> >>,
      fear      |-> << <<"InnerBrowRaiserL", "InnerBrowRaiserR">>,
                       <<"OuterBrowRaiserL", "OuterBrowRaiserR">>,
                       <<"BrowLowererL", "BrowLowererR">>,
                       <<"UpperLidRaiserL", "UpperLidRaiserR">>,
                       <<"LipStretcherL", "LipStretcherR">>,
                       <<"JawDrop">> >>,
      anger     |-> << <<"BrowLowererL", "BrowLowererR">>,
                       <<"UpperLidRaiserL", "UpperLidRaiserR">>,
                       <<"LidTightenerL", "LidTightenerR">>,
                       <<"LipTightenerL", "LipTightenerR">>,
                       <<"LipPressorL", "LipPressorR">> >>,
      disgust   |-> << <<"NoseWrinklerL", "NoseWrinklerR">>,
                       <<"UpperLipRaiserL", "UpperLipRaiserR">>,
                       <<"LipCornerDepressorL", "LipCornerDepressorR">>,
                       <<"LowerLipDepressorL", "LowerLipDepressorR">>,
                       <<"ChinRaiserB", "ChinRaiserT">> >> ]

\* iteration order of emotion_primary_patterns.items(): dict insertion order
PatternOrder ==
    <<"happiness", "sadness", "surprise", "fear", "anger", "disgust">>

\* the AU identifiers, in the order Python orders them as str
AUOrder ==
    << "BrowLowererL", "BrowLowererR", "CheekRaiserL", "CheekRaiserR",
       "ChinRaiserB", "ChinRaiserT", "InnerBrowRaiserL", "InnerBrowRaiserR",
       "JawDrop", "LidTightenerL", "LidTightenerR", "LipCornerDepressorL",
       "LipCornerDepressorR", "LipCornerPullerL", "LipCornerPullerR",
       "LipPressorL", "LipPressorR", "LipStretcherL", "LipStretcherR",
       "LipTightenerL", "LipTightenerR", "LowerLipDepressorL",
       "LowerLipDepressorR", "NoseWrinklerL", "NoseWrinklerR",
       "OuterBrowRaiserL", "OuterBrowRaiserR", "UpperLidRaiserL",
       "UpperLidRaiserR", "UpperLipRaiserL", "UpperLipRaiserR" >>

AURank(au) == CHOOSE i \in 1..Len(AUOrder) : AUOrder[i] = au

(***************************************************************************)
(* Helpers for pandas and dict idioms.                                     *)
(***************************************************************************)
Range(s) == {s[i] : i \in 1..Len(s)}

RECURSIVE SelectRows(_, _)
\* df[df.Time == time], rows in their original order
SelectRows(df, time) ==
    IF df = <<>> THEN <<>>
    ELSE IF df[1].Time = time THEN <<df[1]>> \o SelectRows(Tail(df), time)
    ELSE SelectRows(Tail(df), time)

RECURSIVE SortTimes(_)
\* the group keys of groupby('Time'): distinct, ascending
SortTimes(S) ==
    IF S = {} THEN <<>>
    ELSE LET m == CHOOSE t \in S : \A u \in S \ {t} : StrLess(t, u)
         IN  <<m>> \o SortTimes(S \ {m})

GroupKeys(df) == SortTimes({df[i].Time : i \in 1..Len(df)})

\* a dict as the sequence of its <<key, value>> items in insertion order
DictHas(d, k) == \E i \in 1..Len(d) : d[i][1] = k

DictGet(d, k) == d[CHOOSE i \in 1..Len(d) : d[i][1] = k][2]

DictSet(d, k, v) ==
    IF DictHas(d, k)
    THEN [i \in 1..Len(d) |-> IF d[i][1] = k THEN <<k, v>> ELSE d[i]]
    ELSE Append(d, <<k, v>>)

RECURSIVE DictZip(_, _)
\* dict(zip(keys, vals)): first occurrence fixes the position, last the value
DictZip(keys, vals) ==
    IF keys = <<>> THEN <<>>
    ELSE LET n == Len(keys)
         IN  DictSet(DictZip(SubSeq(keys, 1, n - 1), SubSeq(vals, 1, n - 1)),
                     keys[n], vals[n])

Column(df, c) == [i \in 1..Len(df) |-> df[i][c]]

(***************************************************************************)
(* detect_emotions                                                         *)
(***************************************************************************)
\* line 233
expression_to_weight(group) ==
    DictZip(Column(group, "Expression"), Column(group, "Weight"))

VariantActivePresentOnly(e2w, au) == DictHas(e2w, au)

\* line 249
VariantActive(e2w, au) ==
    DictHas(e2w, au) /\ RLess(RInt(0), DictGet(e2w, au))

ScanVariantLast(e2w, au, acc) ==
    IF VariantActive(e2w, au) THEN <<TRUE, DictGet(e2w, au)>> ELSE acc

\* lines 249-252: one variant's effect on <<group_active, max_weight_in_group>>
ScanVariant(e2w, au, acc) ==
    IF VariantActive(e2w, au)
    THEN <<TRUE, IF RLess(acc[2], DictGet(e2w, au))
                 THEN DictGet(e2w, au) ELSE acc[2]>>
    ELSE acc

RECURSIVE ScanGroup(_, _, _)
\* lines 248-252
ScanGroup(au_group, e2w, acc) ==
    IF au_group = <<>> THEN acc
    ELSE ScanGroup(Tail(au_group), e2w, ScanVariant(e2w, Head(au_group), acc))

RECURSIVE ScanPattern(_, _, _)
\* lines 243-260: <<all_groups_active, group_weights>>, leaving at the first
\* inactive group
ScanPattern(pattern_groups, e2w, group_weights) ==
    IF pattern_groups = <<>> THEN <<TRUE, group_weights>>
    ELSE LET g == ScanGroup(Head(pattern_groups), e2w, <<FALSE, RInt(0)>>)
         IN  IF ~g[1] THEN <<FALSE, group_weights>>
             ELSE ScanPattern(Tail(pattern_groups), e2w,
                              Append(group_weights, g[2]))

\* lines 263-266
EmotionIntensity(scan) ==
    IF scan[1] THEN RDiv(RSum(scan[2]), RInt(Len(scan[2]))) ELSE RInt(0)

\* lines 236-266: emotion_intensities before normalization
RawIntensities(e2w) ==
    [i \in 1..Len(PatternOrder) |->
        <<PatternOrder[i],
          EmotionIntensity(
              ScanPattern(emotion_primary_patterns[PatternOrder[i]], e2w, <<>>))>>]

NormalizeByMax(emotion_intensities) ==
    LET m == CHOOSE x \in {emotion_intensities[i][2] :
                             i \in 1..Len(emotion_intensities)} :
                 \A j \in 1..Len(emotion_intensities) :
                     RLeq(emotion_intensities[j][2], x)
    IN  IF RLess(RInt(0), m)
        THEN [i \in 1..Len(emotion_intensities) |->
                 <<emotion_intensities[i][1], RDiv(emotion_intensities[i][2], m)>>]
        ELSE emotion_intensities

NormalizeNever(emotion_intensities) == emotion_intensities

\* lines 269-272
Normalize(emotion_intensities) ==
    LET total_intensity == RSum(Column(emotion_intensities, 2))
    IN  IF RLess(RInt(0), total_intensity)
        THEN [i \in 1..Len(emotion_intensities) |->
                 <<emotion_intensities[i][1],
                   RDiv(emotion_intensities[i][2], total_intensity)>>]
        ELSE emotion_intensities

RECURSIVE InsertDescUnstable(_, _)
InsertDescUnstable(sorted, x) ==
    IF sorted = <<>> THEN <<x>>
    ELSE IF RLeq(Head(sorted)[2], x[2]) THEN <<x>> \o sorted
    ELSE <<Head(sorted)>> \o InsertDescUnstable(Tail(sorted), x)

RECURSIVE InsertDesc(_, _)
\* place x behind every item whose intensity is not smaller: sorted() is
\* stable, and stays so under reverse=True
InsertDesc(sorted, x) ==
    IF sorted = <<>> THEN <<x>>
    ELSE IF RLess(Head(sorted)[2], x[2]) THEN <<x>> \o sorted
    ELSE <<Head(sorted)>> \o InsertDesc(Tail(sorted), x)

RECURSIVE sorted_emotions(_)
\* lines 275-279
sorted_emotions(items) ==
    IF items = <<>> THEN <<>>
    ELSE LET n == Len(items)
         IN  InsertDesc(sorted_emotions(SubSeq(items, 1, n - 1)), items[n])

\* lines 282-288
time_results(time, sorted) ==
    [i \in 1..Len(sorted) |->
        [Time |-> time, Emotion |-> sorted[i][1], Intensity |-> sorted[i][2]]]

RECURSIVE DetectTimes(_, _)
\* lines 231-290, one pass per group of df.groupby('Time')
DetectTimes(df, times) ==
    IF times = <<>> THEN <<>>
    ELSE time_results(Head(times),
             sorted_emotions(Normalize(RawIntensities(
                 expression_to_weight(SelectRows(df, Head(times)))))))
         \o DetectTimes(df, Tail(times))

\* lines 228-298; pd.DataFrame([]) of an empty all_results has no columns
detect_emotions(df) == DetectTimes(df, GroupKeys(df))

\* emotion_intensities as it stands at line 267, per Time
RawByTime(df) ==
    [t \in Range(GroupKeys(df)) |->
        RawIntensities(expression_to_weight(SelectRows(df, t)))]

(***************************************************************************)
(* create_final_dataset                                                    *)
(***************************************************************************)
\* line 315
all_emotions ==
    <<"happiness", "sadness", "surprise", "fear", "anger", "disgust">>

RECURSIVE MaxItemLast(_)
MaxItemLast(items) ==
    IF Len(items) = 1 THEN items[1]
    ELSE LET m == MaxItemLast(Tail(items))
         IN  IF RLess(m[2], items[1][2]) THEN items[1] ELSE m

RECURSIVE MaxItem(_)
\* line 326: max() keeps the first of the largest items
MaxItem(items) ==
    IF Len(items) = 1 THEN items[1]
    ELSE LET n == Len(items)
             m == MaxItem(SubSeq(items, 1, n - 1))
         IN  IF RLess(m[2], items[n][2]) THEN items[n] ELSE m

DominantLabelNoThreshold(max_emotion, thr) == max_emotion[1]

DominantLabelLeq(max_emotion, thr) ==
    IF RLeq(max_emotion[2], thr) THEN "neutral" ELSE max_emotion[1]

\* lines 327-332
DominantLabel(max_emotion, thr) ==
    IF RLess(max_emotion[2], thr) THEN "neutral" ELSE max_emotion[1]

\* line 339: emotion_to_intensity.get(emotion, 0)
IntensityOf(emotion_to_intensity, emotion) ==
    IF DictHas(emotion_to_intensity, emotion)
    THEN DictGet(emotion_to_intensity, emotion) ELSE RInt(0)

RowColumnZeroedWhenNeutral(emotion_to_intensity, dominant_emotion, emotion) ==
    IF dominant_emotion = "neutral" THEN RInt(0)
    ELSE IntensityOf(emotion_to_intensity, emotion)

\* lines 335-339: the value of one emotion column of the row
RowColumn(emotion_to_intensity, dominant_emotion, emotion) ==
    IntensityOf(emotion_to_intensity, emotion)

\* lines 323-341
FinalRow(time, group, thr) ==
    LET emotion_to_intensity ==
            DictZip(Column(group, "Emotion"), Column(group, "Intensity"))
        dominant_emotion == DominantLabel(MaxItem(emotion_to_intensity), thr)
    IN  [Time            |-> time,
         DominantEmotion |-> dominant_emotion,
         happiness |-> RowColumn(emotion_to_intensity, dominant_emotion, "happiness"),
         sadness   |-> RowColumn(emotion_to_intensity, dominant_emotion, "sadness"),
         surprise  |-> RowColumn(emotion_to_intensity, dominant_emotion, "surprise"),
         fear      |-> RowColumn(emotion_to_intensity, dominant_emotion, "fear"),
         anger     |-> RowColumn(emotion_to_intensity, dominant_emotion, "anger"),
         disgust   |-> RowColumn(emotion_to_intensity, dominant_emotion, "disgust")]

RECURSIVE FinalRows(_, _, _)
FinalRows(emotions, times, thr) ==
    IF times = <<>> THEN <<>>
    ELSE <<FinalRow(Head(times), SelectRows(emotions, Head(times)), thr)>>
         \o FinalRows(emotions, Tail(times), thr)

\* line 321: a frame without columns has no 'Time' to group by (KeyError)
create_final_dataset_raises(emotions) == emotions = <<>>

\* lines 318-353
create_final_dataset(emotions, thr) ==
    FinalRows(emotions, GroupKeys(emotions), thr)

(***************************************************************************)
(* sanitize_dataset                                                        *)
(*                                                                         *)
(* A raw file is the sequence of its text lines, the header first.  A text *)
(* line is given by its comma-separated fields:                            *)
(*   [kind |-> "header"]                                                   *)
(*   [kind |-> "delim", num, rest]      the delimiter text, then rest      *)
(*   [kind |-> "data", Time, Expression, rest]                             *)
(* rest is the sequence of the remaining fields, each a sequence of        *)
(* characters.  The table pandas parses has a Weight per row: a number     *)
(* <<n, d>>, Missing (an empty field) or NonNumeric (other text); a Weight *)
(* column that holds text keeps every cell as it was read, which is the    *)
(* same value when read again.                                             *)
(***************************************************************************)
Missing == <<0, 0>>

NonNumeric == <<1, 0>>

\* the one non-numeric Weight text of the inputs
NonNumericText == <<"a", "b", "c">>

InvalidText == <<"I", "n", "v", "a", "l", "i", "d">>

Digits == <<"0", "1", "2", "3", "4", "5", "6", "7", "8", "9">>

IsDigit(c) == \E d \in 1..10 : Digits[d] = c

DigitValue(c) == (CHOOSE d \in 1..10 : Digits[d] = c) - 1

RECURSIVE Pow10(_)
Pow10(k) == IF k = 0 THEN 1 ELSE 10 * Pow10(k - 1)

RECURSIVE IntOf(_)
\* int() of a sequence of digits
IntOf(ds) ==
    IF ds = <<>> THEN 0
    ELSE 10 * IntOf(SubSeq(ds, 1, Len(ds) - 1)) + DigitValue(ds[Len(ds)])

RECURSIVE DigitsOf(_)
\* str() of a natural number
DigitsOf(n) ==
    IF n < 10 THEN <<Digits[n + 1]>>
    ELSE DigitsOf(n \div 10) \o <<Digits[(n % 10) + 1]>>

\* line 43: len(line.split(","))
NumFields(line) ==
    IF line.kind = "data" THEN 2 + Len(line.rest) ELSE 1 + Len(line.rest)

ContainsInvalidAnywhere(line) ==
    \/ line.kind = "data" /\ line.Expression = "Invalid"
    \/ \E i \in 1..Len(line.rest) : line.rest[i] = InvalidText

\* line 39: ",Invalid," in line, a field equal to Invalid with a field on
\* either side of it
ContainsInvalid(line) ==
    \/ line.kind = "data" /\ line.Expression = "Invalid" /\ Len(line.rest) >= 1
    \/ \E i \in 1..(Len(line.rest) - 1) : line.rest[i] = InvalidText

FixedLineNoPoint(line) ==
    LET r == line.rest
        k == Len(r)
    IN  [line EXCEPT !.rest = SubSeq(r, 1, k - 2) \o <<r[k - 1] \o r[k]>>]

\* line 48: f"{parts[0]},{parts[1]},{parts[2]}.{parts[3]}"
FixedLine(line) ==
    LET r == line.rest
        k == Len(r)
    IN  [line EXCEPT !.rest = SubSeq(r, 1, k - 2) \o <<r[k - 1] \o <<".">> \o r[k]>>]

\* lines 37-51: processed_lines without the header
ProcessedLines(raw) ==
    LET Kept(line) == ~ContainsInvalid(line)
        kept == SelectSeq(Tail(raw), Kept)
    IN  [i \in 1..Len(kept) |->
            IF NumFields(kept[i]) = 4 THEN FixedLine(kept[i]) ELSE kept[i]]

\* the number pandas reads from a Weight field
ParseWeight(tok) ==
    LET dots == {i \in 1..Len(tok) : tok[i] = "."}
    IN  IF tok = <<>> THEN Missing
        ELSE IF \E i \in 1..Len(tok) : ~IsDigit(tok[i]) /\ tok[i] # "."
        THEN NonNumeric
        ELSE IF dots = {} THEN RInt(IntOf(tok))
        ELSE IF Cardinality(dots) > 1 \/ Len(tok) = 1 THEN NonNumeric
        ELSE LET p == CHOOSE i \in dots : TRUE
                 frac == SubSeq(tok, p + 1, Len(tok))
             IN  Rat(IntOf(SubSeq(tok, 1, p - 1)) * Pow10(Len(frac)) + IntOf(frac),
                     Pow10(Len(frac)))

\* the Weight cell of a processed line: the third field, NaN if the line is short
WeightCell(line) ==
    LET k == IF line.kind = "data" THEN 1 ELSE 2
    IN  IF Len(line.rest) < k THEN Missing ELSE ParseWeight(line.rest[k])

\* line 62, pd.read_csv: the header names three columns; the first data line
\* may be of any length, a later line longer than the lines before it is a
\* ParserError, a shorter one is padded with NaN
sanitize_dataset_raises(raw) ==
    LET processed == ProcessedLines(raw)
        width == IF processed = <<>> \/ NumFields(processed[1]) < 3
                 THEN 3 ELSE NumFields(processed[1])
    IN  \E i \in 2..Len(processed) : NumFields(processed[i]) > width

\* a first data line longer than the header makes pandas read the leading
\* columns as an index: such files are outside the inputs
ImplicitIndex(raw) ==
    LET processed == ProcessedLines(raw)
    IN  processed # <<>> /\ NumFields(processed[1]) > 3

\* lines 37-63: the lines of the file df.to_csv writes
sanitize_dataset(raw) ==
    LET processed == ProcessedLines(raw)
    IN  <<raw[1]>> \o
        [i \in 1..Len(processed) |->
            IF processed[i].kind = "delim"
            THEN [kind |-> "delim", num |-> processed[i].num]
            ELSE [kind |-> "data", id |-> i, Time |-> processed[i].Time,
                  Expression |-> processed[i].Expression,
                  Weight |-> WeightCell(processed[i])]]

\* the smallest number of decimals that writes w exactly
Decimals(w) == CHOOSE k \in 0..6 :
                   /\ (w[1] * Pow10(k)) % w[2] = 0
                   /\ \A j \in 0..(k - 1) : (w[1] * Pow10(j)) % w[2] # 0

\* line 63, df.to_csv: the text of a Weight cell; float_column says that the
\* column is float64 (some cell is not a whole number) rather than int64
WeightText(w, float_column) ==
    IF w = Missing THEN <<>>
    ELSE IF w = NonNumeric THEN NonNumericText
    ELSE LET k == Decimals(w)
             m == (w[1] * Pow10(k)) \div w[2]
             frac == DigitsOf(Pow10(k) + (m % Pow10(k)))
         IN  IF k = 0
             THEN DigitsOf(m) \o (IF float_column THEN <<".", "0">> ELSE <<>>)
             ELSE DigitsOf(m \div Pow10(k)) \o <<".">> \o Tail(frac)

\* line 63, df.to_csv(index=False): the text lines of a sanitized file; a
\* delimiter row has empty Expression and Weight cells
to_csv(ls) ==
    LET float_column ==
            \E i \in 2..Len(ls) :
                \/ ls[i].kind = "delim"
                \/ ls[i].kind = "data" /\ ls[i].Weight[2] # 1
    IN  <<ls[1]>> \o
        [i \in 1..(Len(ls) - 1) |->
            IF ls[i + 1].kind = "delim"
            THEN [kind |-> "delim", num |-> ls[i + 1].num, rest |-> << <<>>, <<>> >>]
            ELSE [kind |-> "data", Time |-> ls[i + 1].Time,
                  Expression |-> ls[i + 1].Expression,
                  rest |-> <<WeightText(ls[i + 1].Weight, float_column)>>]]

(***************************************************************************)
(* split_tasks_data                                                        *)
(*                                                                         *)
(* A file is the sequence of its lines, the header first.  A line is       *)
(*   [kind |-> "header"],  [kind |-> "delim", num |-> n]  (a line that     *)
(*   task_pattern matches, n the captured number), or                      *)
(*   [kind |-> "data", id, Time, Expression, Weight]  (id: the line's      *)
(*   place in the file, which tells equal-looking rows apart).             *)
(* Python index i of lines is index i + 1 here.                            *)
(***************************************************************************)
\* lines 86, 102: task_pattern.match(line)
task_pattern_match(line) == line.kind = "delim"

\* Python's lines[a:b]
Slice(ls, a, b) == SubSeq(ls, a + 1, b)

\* lines 100-107: the 0-based indices of the delimiter lines, ascending
task_boundaries(ls) ==
    LET F[i \in 0..Len(ls)] ==
            IF i = 0 THEN <<>>
            ELSE IF task_pattern_match(ls[i]) THEN Append(F[i - 1], i - 1)
            ELSE F[i - 1]
    IN  F[Len(ls)]

read_csvDropsLastRow(content) ==
    LET body == SubSeq(content, 2, Len(content) - 1)
    IN  [i \in 1..Len(body) |->
            [id |-> body[i].id, Time |-> body[i].Time,
             Expression |-> body[i].Expression, Weight |-> body[i].Weight]]

\* pd.read_csv of a header line followed by data lines
read_csv(content) ==
    LET body == Tail(content)
    IN  [i \in 1..Len(body) |->
            [id |-> body[i].id, Time |-> body[i].Time,
             Expression |-> body[i].Expression, Weight |-> body[i].Weight]]

\* f"task_{n}"
TaskName(n) == <<"task_", n>>

SkippedTaskOffByOne(task_num) == task_num = 14

\* line 153
SkippedTask(task_num) == task_num + 1 = 14

\* lines 119-123
FirstTask(ls, bounds) ==
    LET first_task_end == bounds[1]
    IN  IF first_task_end > 1
        THEN <<[df |-> read_csv(Slice(ls, 0, first_task_end)),
                name |-> TaskName(1)]>>
        ELSE <<>>

DelimTaskToEndOfFile(ls, bounds, i) ==
    LET start_idx == bounds[i] + 1
        end_idx   == Len(ls)
        NotDelim(line) == ~task_pattern_match(line)
        task_content == SelectSeq(<<ls[1]>> \o Slice(ls, start_idx, end_idx),
                                  NotDelim)
        task_num == ls[bounds[i] + 1].num
    IN  IF start_idx >= end_idx THEN <<>>
        ELSE IF SkippedTask(task_num) THEN <<>>
        ELSE <<[df |-> read_csv(task_content), name |-> TaskName(task_num + 1)]>>

\* lines 128-157: the pair appended for delimiter i (1-based), if any
DelimTask(ls, bounds, i) ==
    LET start_idx == bounds[i] + 1
        end_idx   == IF i < Len(bounds) THEN bounds[i + 1] ELSE Len(ls)
        NotDelim(line) == ~task_pattern_match(line)
        task_content == SelectSeq(<<ls[1]>> \o Slice(ls, start_idx, end_idx),
                                  NotDelim)
        task_num == ls[bounds[i] + 1].num
    IN  IF start_idx >= end_idx THEN <<>>
        ELSE IF SkippedTask(task_num) THEN <<>>
        ELSE <<[df |-> read_csv(task_content), name |-> TaskName(task_num + 1)]>>

RECURSIVE DelimTasks(_, _, _)
\* lines 127-158
DelimTasks(ls, bounds, i) ==
    IF i > Len(bounds) THEN <<>>
    ELSE DelimTask(ls, bounds, i) \o DelimTasks(ls, bounds, i + 1)

\* lines 93-160
split_tasks_data(ls) ==
    LET bounds == task_boundaries(ls)
    IN  IF bounds = <<>>
        THEN <<[df |-> read_csv(ls), name |-> TaskName(1)]>>
        ELSE FirstTask(ls, bounds) \o DelimTasks(ls, bounds, 1)

(***************************************************************************)
(* aggregate_by_second                                                     *)
(***************************************************************************)
RECURSIVE Split(_, _)
\* str.split(sep) for a one-character sep
Split(s, sep) ==
    IF \A i \in 1..Len(s) : s[i] # sep THEN <<s>>
    ELSE LET k == CHOOSE i \in 1..Len(s) :
                      s[i] = sep /\ \A j \in 1..(i - 1) : s[j] # sep
         IN  <<SubSeq(s, 1, k - 1)>> \o Split(SubSeq(s, k + 1, Len(s)), sep)

\* line 190 raises IndexError for a Time without a space
TimeSecondRaises(x) == Len(Split(x, " ")) < 2

\* lines 189-191
TimeSecond(x) == Split(x, ".")[1] \o <<" ">> \o Split(x, " ")[2]

\* a Weight that pd.to_numeric cannot read is <<0, 0>> (NaN)
IsNaN(w) == w[2] = 0

\* lines 194-198
DropNaWeight(df) ==
    LET Numeric(r) == ~IsNaN(r.Weight)
    IN  SelectSeq(df, Numeric)

KeyLess(k1, k2) ==
    \/ StrLess(k1[1], k2[1])
    \/ k1[1] = k2[1] /\ AURank(k1[2]) < AURank(k2[2])

RECURSIVE SortKeys(_)
SortKeys(S) ==
    IF S = {} THEN <<>>
    ELSE LET m == CHOOSE k \in S : \A u \in S \ {k} : KeyLess(k, u)
         IN  <<m>> \o SortKeys(S \ {m})

\* Series.mean() of the weights of one group
GroupMean(df, key) ==
    LET InGroup(r) == <<TimeSecond(r.Time), r.Expression>> = key
        ws == Column(SelectSeq(df, InGroup), "Weight")
    IN  RDiv(RSum(ws), RInt(Len(ws)))

aggregate_by_second_raises(df) ==
    \E i \in 1..Len(df) : TimeSecondRaises(df[i].Time)

\* lines 189-213: groupby sorts its keys
aggregate_by_second(df) ==
    LET kept == DropNaWeight(df)
        keys == SortKeys({<<TimeSecond(kept[i].Time), kept[i].Expression>> :
                             i \in 1..Len(kept)})
    IN  [i \in 1..Len(keys) |->
            [Time |-> keys[i][1], Expression |-> keys[i][2],
             Weight |-> GroupMean(kept, keys[i])]]

(***************************************************************************)
(* State.                                                                  *)
(***************************************************************************)
VARIABLES
    pc,                  \* where the run stands
    lines,               \* the sanitized file process_file reads
    threshold,           \* threshold argument
    split_output_files,  \* split_output_files argument
    task_data_list,      \* process_file: result of split_tasks_data
    task_idx,            \* process_file: the task the loop of line 515 is at
    aggregated_df,       \* process_task_data: aggregated_df
    raw_intensities,     \* detect_emotions: emotion_intensities at line 267, per Time
    emotions_df,         \* process_task_data: emotions_df
    final_df,            \* process_task_data: final_df (before the Task column)
    all_final_results,   \* process_file: all_final_results
    written,             \* every to_csv / json.dump so far, in order:
                         \* [path, content, owner], owner the <<file, task>> at work
    result,              \* process_file: the returned result paths
    raw_lines,           \* sanitize_dataset: the text lines of the raw file
    resanitized,         \* the file sanitize_dataset writes from its own output
    file_paths,          \* process_files: the files of the batch, [path, content]
    file_idx,            \* process_files: the file the loop of line 595 is at
    sanitized_file,      \* process_files: base name, without extension, of sanitized_file
    result_files,        \* process_files: result_files
    runs                 \* per file already left by the loop: [ok, tasks]

vars == <<pc, lines, threshold, split_output_files, task_data_list, task_idx,
          aggregated_df, raw_intensities, emotions_df, final_df,
          all_final_results, written, result, raw_lines, resanitized,
          file_paths, file_idx, sanitized_file, result_files, runs>>

batch_vars == <<file_paths, file_idx, sanitized_file, result_files, runs>>

sanitize_vars == <<raw_lines, resanitized>>

(***************************************************************************)
(* Inputs.                                                                 *)
(***************************************************************************)
\* "12:00:0<sec>.<ms>00 PM"
Clock(sec, ms) ==
    <<"1", "2", ":", "0", "0", ":", "0", sec, ".", ms, "0", "0", " ", "P", "M">>

\* "12:00:0<sec> PM"
ClockSecond(sec) ==
    <<"1", "2", ":", "0", "0", ":", "0", sec, " ", "P", "M">>

FileTimes == {Clock("1", "1"), Clock("1", "9"), Clock("2", "1")}

FileExpressions == {"CheekRaiserL", "LipCornerPullerL"}

FileWeights == {RInt(1), RInt(2)}

DelimNumbers == {0, 13}

LineChoices ==
    [kind : {"delim"}, num : DelimNumbers]
    \cup [kind : {"data"}, Time : FileTimes, Expression : FileExpressions,
          Weight : FileWeights]

MkLine(c, i) ==
    IF c.kind = "data"
    THEN [kind |-> "data", id |-> i, Time |-> c.Time,
          Expression |-> c.Expression, Weight |-> c.Weight]
    ELSE c

Header == [kind |-> "header"]

\* a header and up to MaxLines further lines
Files ==
    {<<Header>> \o [i \in 1..n |-> MkLine(body[i], i)] :
        n \in 0..MaxLines, body \in [1..MaxLines -> LineChoices]}

\* app/main.py: Form(0.2), and 0
FileThresholds == {RInt(0), Rat(1, 5)}

\* lines 503-504: base name, without extension, of the sanitized file
name_without_ext == sanitized_file

Path(dir, file, task, suffix) ==
    [dir |-> dir, file |-> file, task |-> task, suffix |-> suffix]

NoTask == <<>>

(***************************************************************************)
(* process_file, one file                                                  *)
(***************************************************************************)
Init ==
    /\ pc = "split"
    /\ lines \in Files
    /\ threshold \in FileThresholds
    /\ split_output_files \in BOOLEAN
    /\ task_data_list = <<>>
    /\ task_idx = 0
    /\ aggregated_df = <<>>
    /\ raw_intensities = <<>>
    /\ emotions_df = <<>>
    /\ final_df = <<>>
    /\ all_final_results = <<>>
    /\ written = <<>>
    /\ result = <<>>
    /\ raw_lines = <<>>
    /\ resanitized = <<>>
    /\ file_paths = <<>>
    /\ file_idx = 1
    /\ sanitized_file = "sanitized_log"
    /\ result_files = <<>>
    /\ runs = <<>>

\* line 508
SplitTasksData ==
    /\ pc = "split"
    /\ task_data_list' = split_tasks_data(lines)
    /\ task_idx' = 1
    /\ pc' = IF task_data_list' = <<>> THEN "write" ELSE "aggregate"
    /\ UNCHANGED sanitize_vars
    /\ UNCHANGED batch_vars
    /\ UNCHANGED <<lines, threshold, split_output_files, aggregated_df,
                   raw_intensities, emotions_df, final_df, all_final_results,
                   written, result>>

\* process_task_data, lines 462-466
AggregateBySecond ==
    /\ pc = "aggregate"
    /\ LET task == task_data_list[task_idx]
       IN  IF aggregate_by_second_raises(task.df)
           THEN /\ pc' = "failed"
                /\ UNCHANGED <<aggregated_df, written>>
           ELSE /\ aggregated_df' = aggregate_by_second(task.df)
                /\ written' =
                       IF split_output_files
                       THEN Append(written,
                                [path |-> Path("results/aggregated", "", task.name,
                                               "_aggregated.csv"),
                                 content |-> aggregated_df',
                                 owner |-> <<file_idx, task_idx>>])
                       ELSE written
                /\ pc' = "detect"
    /\ UNCHANGED sanitize_vars
    /\ UNCHANGED batch_vars
    /\ UNCHANGED <<lines, threshold, split_output_files, task_data_list,
                   task_idx, raw_intensities, emotions_df, final_df,
                   all_final_results, result>>

\* process_task_data, lines 469-473
DetectEmotions ==
    /\ pc = "detect"
    /\ emotions_df' = detect_emotions(aggregated_df)
    /\ raw_intensities' = RawByTime(aggregated_df)
    /\ written' =
           IF split_output_files
           THEN Append(written,
                    [path |-> Path("results/emotions", "",
                                   task_data_list[task_idx].name, "_emotions.csv"),
                     content |-> emotions_df',
                     owner |-> <<file_idx, task_idx>>])
           ELSE written
    /\ pc' = "final"
    /\ UNCHANGED sanitize_vars
    /\ UNCHANGED batch_vars
    /\ UNCHANGED <<lines, threshold, split_output_files, task_data_list,
                   task_idx, aggregated_df, final_df, all_final_results, result>>

\* line 483: final_df['Task'] = task_name
AddTask(df, task_name) ==
    [i \in 1..Len(df) |-> [row |-> df[i], Task |-> task_name]]

\* lines 535-536, 554-555: drop(columns=['Task'])
DropTask(df) == [i \in 1..Len(df) |-> df[i].row]

AfterTaskWritesAtOnce(idx, n) == "write"

\* lines 515-517: the loop goes on to the next task, process_file to its
\* writes after the last one
AfterTask(idx, n) == IF idx < n THEN "aggregate" ELSE "write"

\* process_task_data, lines 476-485, and line 517
CreateFinalDataset ==
    /\ pc = "final"
    /\ LET task == task_data_list[task_idx]
       IN  IF create_final_dataset_raises(emotions_df)
           THEN /\ pc' = "failed"
                /\ UNCHANGED <<final_df, written, all_final_results, task_idx>>
           ELSE /\ final_df' = create_final_dataset(emotions_df, threshold)
                /\ written' =
                       IF split_output_files
                       THEN Append(written,
                                [path |-> Path("results/final", "", task.name,
                                               "_final.csv"),
                                 content |-> final_df',
                                 owner |-> <<file_idx, task_idx>>])
                       ELSE written
                /\ all_final_results' =
                       Append(all_final_results, AddTask(final_df', task.name))
                /\ task_idx' = task_idx + 1
                /\ pc' = AfterTask(task_idx, Len(task_data_list))
    /\ UNCHANGED sanitize_vars
    /\ UNCHANGED batch_vars
    /\ UNCHANGED <<lines, threshold, split_output_files, task_data_list,
                   aggregated_df, raw_intensities, emotions_df, result>>

\* generate_statistics, lines 374-375 and 410-412
Statistics(df) ==
    [total_records |-> Len(df),
     timestamps    |-> Cardinality({df[i].Time : i \in 1..Len(df)})]

RECURSIVE Concat(_)
\* pd.concat(frames, ignore_index=True)
Concat(frames) ==
    IF frames = <<>> THEN <<>> ELSE Head(frames) \o Concat(Tail(frames))

\* lines 525-546: the writes of the i-th pass of the split-mode loop
SplitModeWrites(i) ==
    LET task_name  == task_data_list[i].name
        one        == DropTask(all_final_results[i])
        final_file ==
            IF Len(all_final_results) = 1
            THEN Path("results/final", name_without_ext, NoTask, "_final.csv")
            ELSE Path("results/final", name_without_ext, task_name, "_final.csv")
    IN  << [path |-> final_file, content |-> one, owner |-> <<file_idx, i>>],
           [path |-> Path("results/statistics", name_without_ext, task_name,
                          "_statistics.json"),
            content |-> Statistics(one), owner |-> <<file_idx, i>>] >>

RECURSIVE SplitModeAllWrites(_)
SplitModeAllWrites(i) ==
    IF i > Len(all_final_results) THEN <<>>
    ELSE SplitModeWrites(i) \o SplitModeAllWrites(i + 1)

\* lines 551-562
combined_df == DropTask(Concat(all_final_results))

\* process_file, lines 519-566
WriteFinal ==
    /\ pc = "write"
    /\ IF split_output_files
       THEN /\ written' = written \o SplitModeAllWrites(1)
            /\ result' = [i \in 1..Len(all_final_results) |->
                             SplitModeWrites(i)[1].path]
            /\ pc' = "done"
       ELSE IF all_final_results = <<>>
       THEN \* pd.concat of no frames: ValueError
            /\ pc' = "failed"
            /\ UNCHANGED <<written, result>>
       ELSE /\ written' = written \o
                  << [path |-> Path("results/final", name_without_ext, NoTask,
                                    "_final.csv"),
                      content |-> combined_df, owner |-> <<file_idx, 0>>],
                     [path |-> Path("results/statistics", name_without_ext,
                                    NoTask, "_statistics.json"),
                      content |-> Statistics(combined_df),
                      owner |-> <<file_idx, 0>>] >>
            /\ result' = <<Path("results/final", name_without_ext, NoTask,
                                "_final.csv")>>
            /\ pc' = "done"
    /\ UNCHANGED sanitize_vars
    /\ UNCHANGED batch_vars
    /\ UNCHANGED <<lines, threshold, split_output_files, task_data_list,
                   task_idx, aggregated_df, raw_intensities, emotions_df,
                   final_df, all_final_results>>

Next ==
    \/ SplitTasksData
    \/ AggregateBySecond
    \/ DetectEmotions
    \/ CreateFinalDataset
    \/ WriteFinal

Spec == Init /\ [][Next]_vars

(***************************************************************************)
(* detect_emotions and create_final_dataset on their own: the aggregated   *)
(* table of one task is drawn from bounded sets and the two functions are  *)
(* applied to it.                                                          *)
(***************************************************************************)
\* AUs of the happiness and sadness patterns, with both variants of AU6
ProbeAUs ==
    {"CheekRaiserL", "CheekRaiserR", "LipCornerPullerL",
     "InnerBrowRaiserL", "BrowLowererL", "LipCornerDepressorL"}

\* a second Time holds at most this expression
OtherAUs == {"JawDrop"}

AggWeights == {RInt(n) : n \in (-1)..MaxWeight}

\* create_final_dataset's default 0.25, main.py's 0.2, and 0, 1/2, 1
Thresholds == {RInt(0), Rat(1, 5), Rat(1, 4), Rat(1, 2), RInt(1)}

\* an aggregated table as aggregate_by_second returns it: sorted by key
AggTable(w1, w2) ==
    LET keys == SortKeys({<<ClockSecond("1"), au>> : au \in DOMAIN w1}
                         \cup {<<ClockSecond("2"), au>> : au \in DOMAIN w2})
    IN  [i \in 1..Len(keys) |->
            [Time |-> keys[i][1], Expression |-> keys[i][2],
             Weight |-> IF keys[i][1] = ClockSecond("1")
                        THEN w1[keys[i][2]] ELSE w2[keys[i][2]]]]

InitEmotion ==
    /\ pc = "emo_input"
    /\ \E P \in SUBSET ProbeAUs, Q \in SUBSET OtherAUs :
           \E w1 \in [P -> AggWeights], w2 \in [Q -> {RInt(1)}] :
               aggregated_df = AggTable(w1, w2)
    /\ lines = <<>>
    /\ threshold = RInt(0)
    /\ split_output_files = FALSE
    /\ task_data_list = <<>>
    /\ task_idx = 0
    /\ raw_intensities = <<>>
    /\ emotions_df = <<>>
    /\ final_df = <<>>
    /\ all_final_results = <<>>
    /\ written = <<>>
    /\ result = <<>>
    /\ raw_lines = <<>>
    /\ resanitized = <<>>
    /\ file_paths = <<>>
    /\ file_idx = 1
    /\ sanitized_file = "sanitized_log"
    /\ result_files = <<>>
    /\ runs = <<>>

DetectEmotionsCall ==
    /\ pc = "emo_input"
    /\ emotions_df' = detect_emotions(aggregated_df)
    /\ raw_intensities' = RawByTime(aggregated_df)
    /\ pc' = "emo_detected"
    /\ UNCHANGED sanitize_vars
    /\ UNCHANGED batch_vars
    /\ UNCHANGED <<lines, threshold, split_output_files, task_data_list,
                   task_idx, aggregated_df, final_df, all_final_results,
                   written, result>>

CreateFinalDatasetCall ==
    /\ pc = "emo_detected"
    /\ \E thr \in Thresholds :
           /\ threshold' = thr
           /\ IF create_final_dataset_raises(emotions_df)
              THEN pc' = "emo_error" /\ UNCHANGED final_df
              ELSE /\ final_df' = create_final_dataset(emotions_df, thr)
                   /\ pc' = "emo_final"
    /\ UNCHANGED sanitize_vars
    /\ UNCHANGED batch_vars
    /\ UNCHANGED <<lines, split_output_files, task_data_list, task_idx,
                   aggregated_df, raw_intensities, emotions_df,
                   all_final_results, written, result>>

NextEmotion == DetectEmotionsCall \/ CreateFinalDatasetCall

SpecEmotion == InitEmotion /\ [][NextEmotion]_vars

(***************************************************************************)
(* sanitize_dataset on its own: a raw file is drawn from bounded sets, is  *)
(* sanitized, and the sanitized file is sanitized once more.               *)
(***************************************************************************)
RawTimes == {Clock("1", "1")}

RawExpressions == {"CheekRaiserL", "Invalid"}

\* no Weight field; "1"; "abc"; "0,85"; "0,8,5"
RawRests ==
    { <<>>,
      << <<"1">> >>,
      << NonNumericText >>,
      << <<"0">>, <<"8", "5">> >>,
      << <<"0">>, <<"8">>, <<"5">> >> }

RawLineChoices ==
    [kind : {"delim"}, num : {0}, rest : {<<>>}]
    \cup [kind : {"data"}, Time : RawTimes, Expression : RawExpressions,
          rest : RawRests]

\* a header and up to MaxLines further lines
RawFiles ==
    {raw \in {<<Header>> \o [i \in 1..n |-> body[i]] :
                 n \in 0..MaxLines, body \in [1..MaxLines -> RawLineChoices]} :
        ~ImplicitIndex(raw)}

InitSanitize ==
    /\ pc = "sanitize"
    /\ raw_lines \in RawFiles
    /\ resanitized = <<>>
    /\ file_paths = <<>>
    /\ file_idx = 1
    /\ sanitized_file = "sanitized_log"
    /\ result_files = <<>>
    /\ runs = <<>>
    /\ lines = <<>>
    /\ threshold = RInt(0)
    /\ split_output_files = FALSE
    /\ task_data_list = <<>>
    /\ task_idx = 0
    /\ aggregated_df = <<>>
    /\ raw_intensities = <<>>
    /\ emotions_df = <<>>
    /\ final_df = <<>>
    /\ all_final_results = <<>>
    /\ written = <<>>
    /\ result = <<>>

\* sanitize_dataset(file_path, output_dir, logger)
SanitizeDataset ==
    /\ pc = "sanitize"
    /\ IF sanitize_dataset_raises(raw_lines)
       THEN pc' = "sanitize_failed" /\ UNCHANGED lines
       ELSE lines' = sanitize_dataset(raw_lines) /\ pc' = "sanitized"
    /\ UNCHANGED <<threshold, split_output_files, task_data_list, task_idx,
                   aggregated_df, raw_intensities, emotions_df, final_df,
                   all_final_results, written, result, raw_lines, resanitized>>
    /\ UNCHANGED batch_vars

\* sanitize_dataset called on the file it wrote
SanitizeAgain ==
    /\ pc = "sanitized"
    /\ IF sanitize_dataset_raises(to_csv(lines))
       THEN pc' = "resanitize_failed" /\ UNCHANGED resanitized
       ELSE resanitized' = sanitize_dataset(to_csv(lines)) /\ pc' = "resanitized"
    /\ UNCHANGED <<lines, threshold, split_output_files, task_data_list,
                   task_idx, aggregated_df, raw_intensities, emotions_df,
                   final_df, all_final_results, written, result, raw_lines>>
    /\ UNCHANGED batch_vars

NextSanitize == SanitizeDataset \/ SanitizeAgain

SpecSanitize == InitSanitize /\ [][NextSanitize]_vars

(***************************************************************************)
(* process_task_data on its own: the table of one task is drawn from       *)
(* bounded sets and aggregate_by_second, detect_emotions and               *)
(* create_final_dataset are applied to it.                                 *)
(***************************************************************************)
\* "1/2/2023 12:00:0<sec>.<ms>00 PM"
DatedClock(sec, ms) ==
    <<"1", "/", "2", "/", "2", "0", "2", "3", " ">> \o Clock(sec, ms)

TaskRowChoices ==
    [Time : {Clock("1", "1"), Clock("1", "9")}, Expression : {"CheekRaiserL"},
     Weight : {RInt(1), RInt(2), NonNumeric}]
    \cup [Time : {Clock("1", "1")}, Expression : {"LipCornerPullerL"},
          Weight : {RInt(1)}]
    \cup [Time : {DatedClock("1", "1"), DatedClock("1", "9")},
          Expression : {"CheekRaiserL"}, Weight : {RInt(1)}]

\* tables of up to MaxLines rows
TaskFrames ==
    {[i \in 1..n |-> [id |-> i, Time |-> body[i].Time,
                      Expression |-> body[i].Expression,
                      Weight |-> body[i].Weight]] :
        n \in 0..MaxLines, body \in [1..MaxLines -> TaskRowChoices]}

InitTask ==
    /\ pc = "aggregate"
    /\ \E df \in TaskFrames : task_data_list = <<[df |-> df, name |-> TaskName(1)]>>
    /\ task_idx = 1
    /\ threshold = Rat(1, 5)
    /\ split_output_files \in BOOLEAN
    /\ lines = <<>>
    /\ aggregated_df = <<>>
    /\ raw_intensities = <<>>
    /\ emotions_df = <<>>
    /\ final_df = <<>>
    /\ all_final_results = <<>>
    /\ written = <<>>
    /\ result = <<>>
    /\ raw_lines = <<>>
    /\ resanitized = <<>>
    /\ file_paths = <<>>
    /\ file_idx = 1
    /\ sanitized_file = "sanitized_log"
    /\ result_files = <<>>
    /\ runs = <<>>

NextTask == AggregateBySecond \/ DetectEmotions \/ CreateFinalDataset

SpecTask == InitTask /\ [][NextTask]_vars

(***************************************************************************)
(* process_files: a batch of raw files, one after the other.               *)
(***************************************************************************)
MaxFiles == 2

\* base names, without extension, of the raw files
BatchPaths == {"a", "b"}

\* line 58: f"sanitized_{base_name}", without extension
SanitizedName(path) == IF path = "a" THEN "sanitized_a" ELSE "sanitized_b"

\* "12:00:01.100 PM,CheekRaiserL,<rest>"
RawRow(rest) ==
    [kind |-> "data", Time |-> Clock("1", "1"), Expression |-> "CheekRaiserL",
     rest |-> rest]

RawDelim(n) == [kind |-> "delim", num |-> n, rest |-> <<>>]

\* one task; a leading segment and TASK 0; a leading segment and TASK 1; a
\* late line of five fields; a second task without a numeric Weight; a
\* delimiter and nothing else
BatchContents ==
    { <<Header, RawRow(<< <<"1">> >>)>>,
      <<Header, RawRow(<< <<"1">> >>), RawDelim(0), RawRow(<< <<"1">> >>)>>,
      <<Header, RawRow(<< <<"1">> >>), RawDelim(1), RawRow(<< <<"1">> >>)>>,
      <<Header, RawRow(<< <<"1">> >>), RawRow(<< <<"0">>, <<"8">>, <<"5">> >>)>>,
      <<Header, RawRow(<< <<"1">> >>), RawDelim(1), RawRow(<< NonNumericText >>)>>,
      <<Header, RawDelim(0)>> }

\* one to MaxFiles files; a path names one file
Batches ==
    {b \in UNION {[1..n -> [path : BatchPaths, content : BatchContents]] :
                     n \in 1..MaxFiles} :
        \A i, j \in DOMAIN b : b[i].path = b[j].path => b[i].content = b[j].content}

InitBatch ==
    /\ pc = "sanitize_file"
    /\ file_paths \in Batches
    /\ file_idx = 1
    /\ raw_lines = file_paths[1].content
    /\ sanitized_file = ""
    /\ result_files = <<>>
    /\ runs = <<>>
    /\ threshold = Rat(1, 5)
    /\ split_output_files \in BOOLEAN
    /\ lines = <<>>
    /\ task_data_list = <<>>
    /\ task_idx = 0
    /\ aggregated_df = <<>>
    /\ raw_intensities = <<>>
    /\ emotions_df = <<>>
    /\ final_df = <<>>
    /\ all_final_results = <<>>
    /\ written = <<>>
    /\ result = <<>>
    /\ resanitized = <<>>

\* lines 596-598: sanitize_dataset(file_path, "results/sanitized", logger)
SanitizeFile ==
    /\ pc = "sanitize_file"
    /\ IF sanitize_dataset_raises(raw_lines)
       THEN /\ pc' = "failed"
            /\ UNCHANGED <<lines, written, sanitized_file>>
       ELSE /\ lines' = sanitize_dataset(raw_lines)
            /\ sanitized_file' = SanitizedName(file_paths[file_idx].path)
            /\ written' = Append(written,
                              [path |-> Path("results/sanitized", sanitized_file',
                                             NoTask, ".csv"),
                               content |-> lines',
                               owner |-> <<file_idx, 0>>])
            /\ pc' = "split"
    /\ UNCHANGED <<threshold, split_output_files, task_data_list, task_idx,
                   aggregated_df, raw_intensities, emotions_df, final_df,
                   all_final_results, result, raw_lines, resanitized,
                   file_paths, file_idx, result_files, runs>>

AfterFileStopsOnError(outcome, idx, n) ==
    IF outcome = "failed" THEN "returned"
    ELSE IF idx < n THEN "sanitize_file" ELSE "returned"

\* lines 595, 612-615: the except branch logs and the loop goes on; the
\* function returns after the last file
AfterFile(outcome, idx, n) == IF idx < n THEN "sanitize_file" ELSE "returned"

\* lines 603-613: the end of one pass of the loop, by return of process_file
\* or by the except branch
NextFile ==
    /\ pc \in {"done", "failed"}
    /\ result_files' = IF pc = "done" THEN result_files \o result ELSE result_files
    /\ runs' = Append(runs,
                   [ok |-> pc = "done",
                    tasks |-> [k \in 1..Len(task_data_list) |->
                                  task_data_list[k].name]])
    /\ pc' = AfterFile(pc, file_idx, Len(file_paths))
    /\ IF pc' = "sanitize_file"
       THEN /\ file_idx' = file_idx + 1
            /\ raw_lines' = file_paths[file_idx + 1].content
       ELSE UNCHANGED <<file_idx, raw_lines>>
    /\ lines' = <<>>
    /\ task_data_list' = <<>>
    /\ task_idx' = 0
    /\ aggregated_df' = <<>>
    /\ raw_intensities' = <<>>
    /\ emotions_df' = <<>>
    /\ final_df' = <<>>
    /\ all_final_results' = <<>>
    /\ result' = <<>>
    /\ UNCHANGED <<threshold, split_output_files, written, resanitized,
                   file_paths, sanitized_file>>

NextBatch ==
    \/ SanitizeFile
    \/ SplitTasksData
    \/ AggregateBySecond
    \/ DetectEmotions
    \/ CreateFinalDataset
    \/ WriteFinal
    \/ NextFile

SpecBatch == InitBatch /\ [][NextBatch]_vars

(***************************************************************************)
(* Properties of detect_emotions and create_final_dataset (SpecEmotion).   *)
(***************************************************************************)
Emotions == {"happiness", "sadness", "surprise", "fear", "anger", "disgust"}

Detected == pc \in {"emo_detected", "emo_final", "emo_error"}

Finalized == pc = "emo_final"

AggTimes == {aggregated_df[i].Time : i \in 1..Len(aggregated_df)}

\* au is present at Time t with a Weight > 0
PositiveAt(t, au) ==
    \E i \in 1..Len(aggregated_df) :
        /\ aggregated_df[i].Time = t
        /\ aggregated_df[i].Expression = au
        /\ aggregated_df[i].Weight[1] > 0

GroupActiveAt(t, au_group) ==
    \E k \in 1..Len(au_group) : PositiveAt(t, au_group[k])

\* the largest Weight among the variants of au_group that count at Time t
GroupMaxAt(t, au_group) ==
    LET ws == {aggregated_df[i].Weight : i \in
                 {j \in 1..Len(aggregated_df) :
                     /\ aggregated_df[j].Time = t
                     /\ \E k \in 1..Len(au_group) :
                            aggregated_df[j].Expression = au_group[k]
                     /\ aggregated_df[j].Weight[1] > 0}}
    IN  CHOOSE m \in ws : \A w \in ws : RLeq(w, m)

RawAt(t, e) == DictGet(raw_intensities[t], e)

\* the rows of emotions_df for Time t, as indices
RowsAt(t) == {i \in 1..Len(emotions_df) : emotions_df[i].Time = t}

IntensityAt(t, e) ==
    emotions_df[CHOOSE i \in RowsAt(t) : emotions_df[i].Emotion = e].Intensity

MaxIntensityAt(t) ==
    CHOOSE m \in {emotions_df[i].Intensity : i \in RowsAt(t)} :
        \A i \in RowsAt(t) : RLeq(emotions_df[i].Intensity, m)

InUnit(x) == RLeq(RInt(0), x) /\ RLeq(x, RInt(1))

\* C1: at every Time, an emotion with an AU group none of whose variants is
\* present with a positive Weight has raw intensity exactly 0.
C1_AllOrNothing ==
    Detected =>
        /\ DOMAIN raw_intensities = AggTimes
        /\ \A t \in AggTimes : \A e \in Emotions :
               (\E g \in 1..Len(emotion_primary_patterns[e]) :
                    ~GroupActiveAt(t, emotion_primary_patterns[e][g]))
               => RawAt(t, e) = RInt(0)

\* happiness is gated off by AU6 although AU12 carries the largest weight
C1_Witness ==
    /\ pc = "emo_detected"
    /\ \E t \in AggTimes :
           /\ ~GroupActiveAt(t, emotion_primary_patterns["happiness"][1])
           /\ \E i \in 1..Len(aggregated_df) :
                  /\ aggregated_df[i].Time = t
                  /\ aggregated_df[i].Expression = "CheekRaiserL"
                  /\ aggregated_df[i].Weight[1] <= 0
           /\ \E i \in 1..Len(aggregated_df) :
                  /\ aggregated_df[i].Time = t
                  /\ aggregated_df[i].Expression = "LipCornerPullerL"
                  /\ aggregated_df[i].Weight = RInt(MaxWeight)
           /\ RawAt(t, "happiness") = RInt(0)

\* C2: when every AU group of an emotion is active at a Time, its raw
\* intensity is the mean over the groups of the group's largest positive Weight.
C2_MeanOfGroupMaxima ==
    Detected =>
        \A t \in AggTimes : \A e \in Emotions :
            LET pattern == emotion_primary_patterns[e]
            IN  (\A g \in 1..Len(pattern) : GroupActiveAt(t, pattern[g]))
                => RawAt(t, e) =
                       RDiv(RSum([g \in 1..Len(pattern) |-> GroupMaxAt(t, pattern[g])]),
                            RInt(Len(pattern)))

\* AU6 has both variants active with different weights, the smaller one last
C2_Witness ==
    /\ pc = "emo_detected"
    /\ \E t \in AggTimes :
           /\ \E i, j \in 1..Len(aggregated_df) :
                  /\ aggregated_df[i].Time = t /\ aggregated_df[j].Time = t
                  /\ aggregated_df[i].Expression = "CheekRaiserL"
                  /\ aggregated_df[j].Expression = "CheekRaiserR"
                  /\ aggregated_df[i].Weight = RInt(2)
                  /\ aggregated_df[j].Weight = RInt(1)
           /\ PositiveAt(t, "LipCornerPullerL")
           /\ RawAt(t, "happiness") = Rat(3, 2)

\* C3: at every Time the six Intensity values sum to 1 when some raw intensity
\* is nonzero, and are all 0 when none is.
C3_SumToOneOrAllZero ==
    Detected =>
        \A t \in AggTimes :
            IF \E e \in Emotions : RawAt(t, e) # RInt(0)
            THEN RSum([i \in 1..Len(PatternOrder) |->
                          IntensityAt(t, PatternOrder[i])]) = RInt(1)
            ELSE \A e \in Emotions : IntensityAt(t, e) = RInt(0)

\* one Time with two unequal nonzero emotions, another with none
C3_Witness ==
    /\ pc = "emo_detected"
    /\ \E t, u \in AggTimes :
           /\ RawAt(t, "happiness") # RInt(0)
           /\ RawAt(t, "sadness") # RInt(0)
           /\ RawAt(t, "happiness") # RawAt(t, "sadness")
           /\ \A e \in Emotions : RawAt(u, e) = RInt(0)

\* C4: every Intensity of detect_emotions and every emotion column of
\* create_final_dataset lies in [0, 1].
C4_IntensitiesInUnitInterval ==
    /\ Detected =>
           \A i \in 1..Len(emotions_df) : InUnit(emotions_df[i].Intensity)
    /\ Finalized =>
           \A i \in 1..Len(final_df) : \A e \in Emotions : InUnit(final_df[i][e])

\* weights above 1 and below 0 in the input, an intensity strictly inside (0, 1)
C4_Witness ==
    /\ Finalized
    /\ \E i \in 1..Len(aggregated_df) : RLess(RInt(1), aggregated_df[i].Weight)
    /\ \E i \in 1..Len(aggregated_df) : RLess(aggregated_df[i].Weight, RInt(0))
    /\ \E i \in 1..Len(final_df) :
           /\ RLess(RInt(0), final_df[i].happiness)
           /\ RLess(final_df[i].happiness, RInt(1))
           /\ RLess(RInt(1), RawAt(final_df[i].Time, "happiness"))

EnumRank(e) == CHOOSE i \in 1..Len(PatternOrder) : PatternOrder[i] = e

\* C5: every Time of the input has exactly six rows, one per emotion, in
\* non-increasing Intensity, equal intensities in enumeration order.
C5_SixRowsRanked ==
    Detected =>
        /\ {emotions_df[i].Time : i \in 1..Len(emotions_df)} = AggTimes
        /\ \A t \in AggTimes :
               /\ Cardinality(RowsAt(t)) = 6
               /\ {emotions_df[i].Emotion : i \in RowsAt(t)} = Emotions
               /\ \A i, j \in RowsAt(t) :
                      i < j =>
                          /\ RLeq(emotions_df[j].Intensity, emotions_df[i].Intensity)
                          /\ emotions_df[i].Intensity = emotions_df[j].Intensity
                             => EnumRank(emotions_df[i].Emotion)
                                    < EnumRank(emotions_df[j].Emotion)

\* two Times in the input; at one, happiness and sadness tie above the four zeros
C5_Witness ==
    /\ pc = "emo_detected"
    /\ \E t \in AggTimes :
           /\ IntensityAt(t, "happiness") = IntensityAt(t, "sadness")
           /\ IntensityAt(t, "happiness") = Rat(1, 2)
    /\ Cardinality(AggTimes) = 2

\* C6: the dominant emotion of a Time, where the label was not replaced by
\* "neutral", has the largest Intensity of that Time and is the first such
\* emotion among the Time's rows.
C6_DominantIsFirstMaximum ==
    Finalized =>
        \A r \in 1..Len(final_df) :
            final_df[r].DominantEmotion # "neutral" =>
                LET t == final_df[r].Time
                    d == CHOOSE i \in RowsAt(t) :
                             emotions_df[i].Emotion = final_df[r].DominantEmotion
                IN  /\ emotions_df[d].Intensity = MaxIntensityAt(t)
                    /\ \A i \in RowsAt(t) :
                           i < d => emotions_df[i].Intensity # MaxIntensityAt(t)

\* happiness and sadness tie at the maximum and happiness, ranked first, wins
C6_Witness ==
    /\ Finalized
    /\ \E r \in 1..Len(final_df) :
           /\ final_df[r].DominantEmotion = "happiness"
           /\ final_df[r].happiness = Rat(1, 2)
           /\ final_df[r].sadness = Rat(1, 2)

\* C7: DominantEmotion is "neutral" exactly when the largest Intensity of the
\* Time is strictly below threshold.
C7_NeutralIffBelowThreshold ==
    Finalized =>
        \A r \in 1..Len(final_df) :
            final_df[r].DominantEmotion = "neutral"
                <=> RLess(MaxIntensityAt(final_df[r].Time), threshold)

\* the largest intensity equals a nonzero threshold and keeps its label
C7_Witness ==
    /\ Finalized
    /\ threshold = Rat(1, 2)
    /\ \E r \in 1..Len(final_df) :
           /\ MaxIntensityAt(final_df[r].Time) = threshold
           /\ final_df[r].DominantEmotion = "happiness"

\* C8: the six emotion columns of a final row are the intensities
\* detect_emotions produced for that Time, whatever the threshold and the label.
C8_ColumnsAreIntensities ==
    Finalized =>
        /\ {final_df[r].Time : r \in 1..Len(final_df)} = AggTimes
        /\ \A r \in 1..Len(final_df) : \A e \in Emotions :
               final_df[r][e] = IntensityAt(final_df[r].Time, e)

\* a row relabelled "neutral" still reports its nonzero intensities
C8_Witness ==
    /\ Finalized
    /\ \E r \in 1..Len(final_df) :
           /\ final_df[r].DominantEmotion = "neutral"
           /\ final_df[r].happiness = Rat(1, 2)
           /\ final_df[r].sadness = Rat(1, 2)

(***************************************************************************)
(* Properties of process_file (Spec).                                      *)
(***************************************************************************)
\* the tables written under results/final so far
FinalTables ==
    {written[k].content : k \in
        {j \in 1..Len(written) : written[j].path.dir = "results/final"}}

DistinctTimes(df) ==
    \A i, j \in 1..Len(df) : i # j => df[i].Time # df[j].Time

\* C9: no final result table, per-task or combined, has two rows of the same
\* Time.
C9_OneRowPerTime == \A df \in FinalTables : DistinctTimes(df)

\* ids of the data lines of the file
DataIds == {i \in 1..(Len(lines) - 1) : lines[i + 1].kind = "data"}

\* data line i lies between a delimiter of captured number 13 and the next
\* delimiter or the end of the file
InDroppedSegment(i) ==
    \E p \in 2..i :
        /\ lines[p].kind = "delim"
        /\ lines[p].num = 13
        /\ \A q \in (p + 1)..i : lines[q].kind # "delim"

KeptSeconds == {TimeSecond(lines[i + 1].Time) : i \in {j \in DataIds : ~InDroppedSegment(j)}}

\* C10: no task is named task_14, no task holds a row of a segment opened by
\* a delimiter numbered 13, and nothing written or collected for the file
\* stems from such a task.
C10_Task14Dropped ==
    pc # "split" =>
        /\ \A k \in 1..Len(task_data_list) :
               /\ task_data_list[k].name # TaskName(14)
               /\ \A r \in 1..Len(task_data_list[k].df) :
                      ~InDroppedSegment(task_data_list[k].df[r].id)
        /\ \A k \in 1..Len(written) : written[k].path.task # TaskName(14)
        /\ \A k \in 1..Len(all_final_results) :
               \A r \in 1..Len(all_final_results[k]) :
                   /\ all_final_results[k][r].Task # TaskName(14)
                   /\ all_final_results[k][r].row.Time \in KeptSeconds
        /\ \A df \in FinalTables : \A r \in 1..Len(df) : df[r].Time \in KeptSeconds

\* a finished run over a file whose TASK 13 segment holds the only sample of
\* some second, next to a task that was kept
C10_Witness ==
    /\ pc = "done"
    /\ result # <<>>
    /\ \E i \in DataIds :
           /\ InDroppedSegment(i)
           /\ TimeSecond(lines[i + 1].Time) \notin KeptSeconds

\* positions (in lines) of the delimiter lines of the file
DelimPositions == {p \in 2..Len(lines) : lines[p].kind = "delim"}

\* ids of the data lines between the delimiter at position p and the next
\* delimiter or the end of the file
SegmentIds(p) ==
    {i \in DataIds : i + 1 > p /\ \A q \in (p + 1)..(i + 1) : lines[q].kind # "delim"}

\* ids of the data lines before the first delimiter
LeadingIds ==
    {i \in DataIds : \A q \in 2..(i + 1) : lines[q].kind # "delim"}

\* the rows of df are the data lines with the ids of S, in file order
HoldsExactly(df, S) ==
    /\ {df[r].id : r \in 1..Len(df)} = S
    /\ Len(df) = Cardinality(S)
    /\ \A r, u \in 1..Len(df) : r < u => df[r].id < df[u].id
    /\ \A r \in 1..Len(df) :
           LET line == lines[df[r].id + 1]
           IN  /\ line.kind = "data"
               /\ df[r].Time = line.Time
               /\ df[r].Expression = line.Expression
               /\ df[r].Weight = line.Weight

\* the number of delimiters of D at positions up to p
DelimsUpTo(D, p) == Cardinality({q \in D : q <= p})

\* task_data_list is: task_1 with the leading rows if there are any, then one
\* task per delimiter of D, in file order, named after the captured number
\* plus one and holding the rows of the delimiter's segment
TasksAre(D) ==
    LET first == IF LeadingIds = {} THEN 0 ELSE 1
    IN  /\ Len(task_data_list) = first + Cardinality(D)
        /\ first = 1 =>
               /\ task_data_list[1].name = TaskName(1)
               /\ HoldsExactly(task_data_list[1].df, LeadingIds)
        /\ \A p \in D :
               LET task == task_data_list[first + DelimsUpTo(D, p)]
               IN  /\ task.name = TaskName(lines[p].num + 1)
                   /\ HoldsExactly(task.df, SegmentIds(p))

\* no data line is a row of two tasks
InAtMostOneTask ==
    \A k, m \in 1..Len(task_data_list) :
        k # m => \A r \in 1..Len(task_data_list[k].df) :
                     \A u \in 1..Len(task_data_list[m].df) :
                         task_data_list[k].df[r].id # task_data_list[m].df[u].id

\* C11 as stated: for a file with a delimiter, the tasks are task_1 with the
\* rows before the first delimiter (if any) and then, for each delimiter with
\* captured number n, a task task_(n+1) with the rows of its segment.
C11_TaskPerDelimiter ==
    (pc # "split" /\ DelimPositions # {}) =>
        TasksAre(DelimPositions) /\ InAtMostOneTask

\* the delimiters that split_tasks_data turns into a task
KeptDelims ==
    {p \in DelimPositions : SegmentIds(p) # {} /\ lines[p].num + 1 # 14}

\* C11, amended: for a file with a delimiter, the tasks are task_1 with the
\* rows before the first delimiter (if any) and then, in file order, one task
\* task_(n+1) with the rows of its segment for each delimiter whose segment is
\* not empty and whose captured number n is not 13; every data row is in at
\* most one task and every row of a task is a data line.
C11_TaskPerKeptDelimiter ==
    (pc # "split" /\ DelimPositions # {}) =>
        TasksAre(KeptDelims) /\ InAtMostOneTask

\* two delimiters in a row, the second with a segment that becomes the only
\* task
C11_Witness ==
    /\ pc # "split"
    /\ KeptDelims # {}
    /\ \E p \in DelimPositions : SegmentIds(p) = {} /\ lines[p].num + 1 # 14
    /\ Len(task_data_list) = 1
    /\ task_data_list[1].df # <<>>

\* C12: for a file without a delimiter line, split_tasks_data returns exactly
\* one pair, named task_1, holding all data rows of the file in file order.
C12_NoDelimiterOneTask ==
    (pc # "split" /\ DelimPositions = {}) =>
        /\ Len(task_data_list) = 1
        /\ task_data_list[1].name = TaskName(1)
        /\ HoldsExactly(task_data_list[1].df, DataIds)
        /\ Len(task_data_list[1].df) = Len(lines) - 1

\* a file of MaxLines data lines and no delimiter
C12_Witness ==
    /\ pc # "split"
    /\ DelimPositions = {}
    /\ Len(lines) > MaxLines
    /\ Len(task_data_list[1].df) >= MaxLines

\* C13 as stated: a run over a file with a delimiter whose segment is empty
\* does not fail.
C13_EmptySegmentRunContinues ==
    (\E p \in DelimPositions : SegmentIds(p) = {}) => pc # "failed"

(***************************************************************************)
(* Properties of sanitize_dataset (SpecSanitize).                          *)
(***************************************************************************)
Sanitized == pc \in {"sanitized", "resanitized", "resanitize_failed"}

\* for each comma-separated field of a text line, whether it reads Invalid
InvalidFlags(line) ==
    (IF line.kind = "data" THEN <<FALSE, line.Expression = "Invalid">>
     ELSE <<FALSE>>)
    \o [i \in 1..Len(line.rest) |-> line.rest[i] = InvalidText]

\* the text of the line contains ,Invalid,
HasInvalidBetweenCommas(line) ==
    \E i \in 2..(Len(InvalidFlags(line)) - 1) : InvalidFlags(line)[i]

\* the lines of the raw file after the header
RawData == Tail(raw_lines)

\* positions in RawData of the lines without ,Invalid,
KeptPositions == {i \in 1..Len(RawData) : ~HasInvalidBetweenCommas(RawData[i])}

\* the position in RawData of the k-th line without ,Invalid,
KeptRaw(k) ==
    CHOOSE i \in KeptPositions : Cardinality({j \in KeptPositions : j <= i}) = k

C15_FourFieldsRejoined ==
    Sanitized =>
        \A k \in 1..Cardinality(KeptPositions) :
            LET line == RawData[KeptRaw(k)]
                row  == lines[k + 1]
            IN  (line.kind = "data" /\ Len(line.rest) = 2) =>
                    /\ row.kind = "data"
                    /\ row.Time = line.Time
                    /\ row.Expression = line.Expression
                    /\ row.Weight =
                           Rat(IntOf(line.rest[1]) * Pow10(Len(line.rest[2]))
                                   + IntOf(line.rest[2]),
                               Pow10(Len(line.rest[2])))

\* the line T,CheekRaiserL,0,85 comes out with Weight 17/20, next to a row
\* with a whole Weight
C15_Witness ==
    /\ pc = "sanitized"
    /\ \E k \in 2..Len(lines) :
           /\ lines[k].kind = "data"
           /\ lines[k].Weight = Rat(17, 20)
           /\ RawData[KeptRaw(k - 1)].rest = << <<"0">>, <<"8", "5">> >>
    /\ \E k \in 2..Len(lines) : lines[k].kind = "data" /\ lines[k].Weight = RInt(1)

\* C16 as stated: sanitizing a sanitized file succeeds and gives the same
\* table.
C16_Idempotent ==
    /\ pc # "resanitize_failed"
    /\ pc = "resanitized" => resanitized = lines

\* C17 as stated: every data row of a sanitized file has a numeric Weight (a
\* line without one makes sanitize_dataset fail).
C17_WeightsNumeric ==
    Sanitized =>
        \A k \in 2..Len(lines) : lines[k].kind = "data" => ~IsNaN(lines[k].Weight)

(***************************************************************************)
(* Properties of aggregate_by_second and process_task_data (SpecTask).     *)
(***************************************************************************)
\* the table of the task
task_df == task_data_list[1].df

Aggregated == pc \in {"detect", "final", "write"}

\* the rows of the task whose Weight is a number, as indices
NumericRows == {i \in 1..Len(task_df) : task_df[i].Weight[2] # 0}

\* the Time x without its sub-second fraction: the text from the last "." up
\* to the next space is removed, what follows (the AM/PM token) is kept
SecondOf(x) ==
    LET p == CHOOSE i \in 1..Len(x) :
                 x[i] = "." /\ \A j \in (i + 1)..Len(x) : x[j] # "."
        q == CHOOSE i \in (p + 1)..Len(x) :
                 x[i] = " " /\ \A j \in (p + 1)..(i - 1) : x[j] # " "
    IN  SubSeq(x, 1, p - 1) \o SubSeq(x, q, Len(x))

\* x and y differ at most in the digits of the sub-second fraction
DifferOnlyInMillis(x, y) == SecondOf(x) = SecondOf(y)

\* the aggregated rows that hold input row i
RowsHolding(i) ==
    {k \in 1..Len(aggregated_df) :
        /\ aggregated_df[k].Expression = task_df[i].Expression
        /\ aggregated_df[k].Time = SecondOf(task_df[i].Time)}

\* C18 as stated: rows whose Times differ only in the milliseconds fall under
\* the same key, and that key is the Time without its sub-second fraction
\* and with its AM/PM token, whatever precedes the clock time.
C18_SecondKey ==
    Aggregated =>
        /\ \A i \in NumericRows : RowsHolding(i) # {}
        /\ {aggregated_df[k].Time : k \in 1..Len(aggregated_df)}
               = {SecondOf(task_df[i].Time) : i \in NumericRows}

\* the numeric rows of the group of second t and expression au
GroupOf(t, au) ==
    {i \in NumericRows :
        SecondOf(task_df[i].Time) = t /\ task_df[i].Expression = au}

RECURSIVE SumOver(_)
\* the sum of the Weights of the rows of S
SumOver(S) ==
    IF S = {} THEN RInt(0)
    ELSE LET i == CHOOSE j \in S : TRUE
         IN  RAdd(task_df[i].Weight, SumOver(S \ {i}))

\* C19 as stated: the aggregated table has exactly one row per (second,
\* Expression) pair of the rows with a numeric Weight, holding the mean of
\* the Weights of those rows, and its rows are sorted by (Time, Expression);
\* all of it is fixed by the set of input rows, not by their order.
C19_OneRowPerSecondAndExpression ==
    Aggregated =>
        /\ \A i \in NumericRows : Cardinality(RowsHolding(i)) = 1
        /\ \A k \in 1..Len(aggregated_df) :
               LET G == GroupOf(aggregated_df[k].Time, aggregated_df[k].Expression)
               IN  /\ G # {}
                   /\ aggregated_df[k].Weight =
                          RDiv(SumOver(G), RInt(Cardinality(G)))
        /\ \A k, m \in 1..Len(aggregated_df) :
               k < m =>
                   \/ StrLess(aggregated_df[k].Time, aggregated_df[m].Time)
                   \/ /\ aggregated_df[k].Time = aggregated_df[m].Time
                      /\ AURank(aggregated_df[k].Expression)
                             < AURank(aggregated_df[m].Expression)

\* C20 as stated: a task with rows whose Weight is not a number runs through
\* aggregate_by_second, detect_emotions and create_final_dataset without
\* error, and those rows enter no mean.
C20_NonNumericRecovered ==
    (\E i \in 1..Len(task_df) : i \notin NumericRows) =>
        /\ pc # "failed"
        /\ Aggregated =>
               \A k \in 1..Len(aggregated_df) :
                   \E G \in SUBSET NumericRows :
                       /\ G # {}
                       /\ \A i \in G :
                              task_df[i].Expression = aggregated_df[k].Expression
                       /\ aggregated_df[k].Weight =
                              RDiv(SumOver(G), RInt(Cardinality(G)))

(***************************************************************************)
(* Labelling of a Time without any emotion (SpecEmotion).                  *)
(***************************************************************************)
AllZero(row) == \A e \in Emotions : row[e] = RInt(0)

\* a Time with six intensities 0 is labelled "neutral", and a named dominant
\* emotion has a nonzero intensity
ZeroIsNeutral ==
    \A r \in 1..Len(final_df) :
        /\ AllZero(final_df[r]) => final_df[r].DominantEmotion = "neutral"
        /\ final_df[r].DominantEmotion # "neutral"
               => final_df[r][final_df[r].DominantEmotion] # RInt(0)

\* C25 as stated: for every threshold in [0, 1], 0 included, a Time whose six
\* intensities are 0 is labelled "neutral" and no named emotion is dominant
\* with intensity 0.
C25_ZeroIsNeutralAnyThreshold == Finalized => ZeroIsNeutral

\* C25, amended: for every threshold in (0, 1] a Time whose six intensities
\* are 0 is labelled "neutral" and no named emotion is dominant with
\* intensity 0.
C25_ZeroIsNeutralPositiveThreshold ==
    (Finalized /\ RLess(RInt(0), threshold)) => ZeroIsNeutral

\* the smallest positive threshold of the inputs, a Time without any emotion
\* next to a Time with one
C25_Witness ==
    /\ Finalized
    /\ threshold = Rat(1, 5)
    /\ \E r \in 1..Len(final_df) :
           AllZero(final_df[r]) /\ final_df[r].DominantEmotion = "neutral"
    /\ \E r \in 1..Len(final_df) : final_df[r].DominantEmotion = "happiness"

(***************************************************************************)
(* Properties of process_files (SpecBatch).                                *)
(***************************************************************************)
Returned == pc = "returned"

\* the result paths of the i-th file of the batch, whose tasks are
\* runs[i].tasks
ExpectedPaths(i) ==
    LET name  == SanitizedName(file_paths[i].path)
        tasks == runs[i].tasks
    IN  IF split_output_files /\ Len(tasks) # 1
        THEN [k \in 1..Len(tasks) |->
                 Path("results/final", name, tasks[k], "_final.csv")]
        ELSE <<Path("results/final", name, NoTask, "_final.csv")>>

RECURSIVE ExpectedResults(_)
\* the result paths of the files from the i-th on whose run succeeded
ExpectedResults(i) ==
    IF i > Len(runs) THEN <<>>
    ELSE (IF runs[i].ok THEN ExpectedPaths(i) ELSE <<>>) \o ExpectedResults(i + 1)

\* the sanitized file of the i-th file of the batch was written
SanitizedWritten(i) ==
    \E k \in 1..Len(written) :
        /\ written[k].owner = <<i, 0>>
        /\ written[k].path.dir = "results/sanitized"

\* C21: when process_files returns, every file of the batch has been run
\* (sanitized unless sanitize_dataset raised for it), whatever happened to
\* the files before it, and the returned list holds the result paths of
\* exactly the files whose run succeeded, in input order.
C21_FailuresIsolated ==
    Returned =>
        /\ Len(runs) = Len(file_paths)
        /\ \A i \in 1..Len(file_paths) :
               ~sanitize_dataset_raises(file_paths[i].content) => SanitizedWritten(i)
        /\ result_files = ExpectedResults(1)

\* the first file fails after it was sanitized, the last one succeeds
C21_Witness ==
    /\ Returned
    /\ Len(runs) = MaxFiles
    /\ ~runs[1].ok
    /\ SanitizedWritten(1)
    /\ runs[Len(runs)].ok
    /\ result_files # <<>>

\* C22 as stated: when process_files returns, no file written during a run
\* that failed is still in place (each such path was written again by another
\* run).
C22_NoOutputOfFailedRun ==
    Returned =>
        \A k \in 1..Len(written) :
            ~runs[written[k].owner[1]].ok =>
                \E m \in (k + 1)..Len(written) :
                    /\ written[m].path = written[k].path
                    /\ written[m].owner[1] # written[k].owner[1]

\* C23 as stated: a path is written for one input file and one task of it
\* only.
C23_PathsUnique ==
    \A k, m \in 1..Len(written) :
        written[k].path = written[m].path =>
            /\ file_paths[written[k].owner[1]].path
                   = file_paths[written[m].owner[1]].path
            /\ written[k].owner[2] = written[m].owner[2]

\* the places in written of the entries added by the step
NewWrites == (Len(written) + 1)..Len(written')

\* one step of a file's run keeps the order of the stages
StageOrder ==
    /\ pc' = "split" =>
           /\ pc = "sanitize_file"
           /\ \E k \in NewWrites :
                  /\ written'[k].path.dir = "results/sanitized"
                  /\ written'[k].owner = <<file_idx, 0>>
    /\ pc' = "aggregate" =>
           \/ pc = "split" /\ task_idx' = 1
           \/ pc = "final" /\ task_idx' = task_idx + 1
                           /\ Len(all_final_results') = task_idx
    /\ pc' = "detect" => pc = "aggregate" /\ task_idx' = task_idx
    /\ pc' = "final" => pc = "detect" /\ task_idx' = task_idx
    /\ pc' = "write" =>
           /\ pc \in {"split", "final"}
           /\ Len(all_final_results') = Len(task_data_list')
    /\ pc' = "done" => pc = "write"
    /\ \A k \in NewWrites :
           (written'[k].path.dir \in {"results/final", "results/statistics"}
            /\ written'[k].path.file # "") =>
               /\ pc = "write"
               /\ Len(all_final_results) = Len(task_data_list)

====
